---- MODULE Spec2Model ----
(***************************************************************************)
(* p-router: the credential store (SQLite repository), the in-memory       *)
(* routing table (ProxyRouter), the health checker (checker.Service) and   *)
(* the request handler of the proxy server (server.Server).                *)
(*                                                                         *)
(* The store row and the cache entry are records with a `present' flag; an *)
(* absent row or entry is the normalised NoRow / NoConfig.  The durable    *)
(* id and the two timestamps of a row are not modelled: no operation       *)
(* branches on them.                                                       *)
(***************************************************************************)
EXTENDS Integers, Sequences, FiniteSets, TLC

(* ---------------------------- bounds ----------------------------------- *)
(* number of records of the large registry (one more than the semaphore)   *)
RegistrySize == 11

(* ------------------------ program constants ---------------------------- *)
SemaphoreCap == 10
DefaultMaxFailedChecks == 5

(* values of the setting conf.Checker.MaxFailedChecks that are explored *)
ConfValues == {3}

(* usernames, passwords and targets the routing operations are called with *)
Usernames == {1, 2}
Passwords == {1, 2}
Targets == {1, 2}
(* usernames of the large registry; the target of record u is u            *)
AllUsernames == 1..RegistrySize

VARIABLES
    store,       \* the proxies table: username -> row
    cache,       \* pr.cache: username -> config
    mu,          \* pr.mu: the mutation that holds the write lock, or NoOp
    ret,         \* what the mutation step just taken returned ("none": nothing)
    conf,        \* conf.Checker.MaxFailedChecks
    cancelled,   \* ctx.Done() is closed
    tick,        \* a tick is buffered in ticker.C
    loopPc,      \* StartPeriodicCheck: "start", "check", "select", "stopped"
    proxies,     \* Check: the FindAll snapshot, username -> target (0: none)
    task,        \* Check: position of the goroutine of each snapshot record
    semaphore,   \* Check: number of tokens in the semaphore channel
    resultChan,  \* Check: buffered results, oldest first
    chanClosed,  \* Check: close(resultChan) has run
    collectPc,   \* Check: position of the range loop ("recv","find","delete")
    cur,         \* Check: the result the range loop is handling
    received,    \* history: results taken from resultChan per username, this cycle
    streak,      \* history: failed probe results handled for the live row since
                 \*          its creation or its last successful result
    evicted,     \* history: the checker deleted the row of this username and
                 \*          no row has been created for it since
    removed,     \* history: RemoveProxy succeeded and no AddProxy has since
    handler,     \* the handler of the request: its position and its locals
    lister       \* the caller of GetAllProxies: its position and its list

rvars == <<store, cache, mu, removed>>
cvars == <<proxies, task, semaphore, resultChan, chanClosed, collectPc, cur, received>>
lvars == <<cancelled, tick, loopPc>>
gvars == <<streak, evicted>>
vars == <<store, cache, mu, ret, conf, cancelled, tick, loopPc,
          proxies, task, semaphore, resultChan, chanClosed, collectPc, cur,
          received, streak, evicted, removed, handler, lister>>

NoRow == [present |-> FALSE, password |-> 0, target |-> 0, failed |-> 0]
NoConfig == [present |-> FALSE, password |-> 0, target |-> 0]
NoOp == [op |-> "none", username |-> 0, password |-> 0, target |-> 0]
NoResult == [Username |-> 0, Success |-> FALSE]

(* --------------------- repository.SQLiteRepository --------------------- *)
(* Each operation is one SQL statement; it yields the error flag and the   *)
(* table after it.                                                         *)

TargetTaken(s, u, t) ==
    \E v \in DOMAIN s : v # u /\ s[v].present /\ s[v].target = t

Create(s, u, p, t) ==
    IF s[u].present \/ TargetTaken(s, u, t)
    THEN [err |-> TRUE, store |-> s]
    ELSE [err |-> FALSE,
          store |-> [s EXCEPT ![u] = [present |-> TRUE, password |-> p,
                                      target |-> t, failed |-> 0]]]

Update(s, u, p, t) ==
    IF ~s[u].present \/ TargetTaken(s, u, t)
    THEN [err |-> TRUE, store |-> s]
    ELSE [err |-> FALSE,
          store |-> [s EXCEPT ![u].password = p, ![u].target = t]]

Delete(s, u) ==
    IF ~s[u].present
    THEN [err |-> TRUE, store |-> s]
    ELSE [err |-> FALSE, store |-> [s EXCEPT ![u] = NoRow]]

FindByUsername(s, u) == s[u]

FindAll(s) == {u \in DOMAIN s : s[u].present}

(* mutant: SET failed_checks = 1 in place of failed_checks + 1 *)
IncrementFailedChecks_SetsOne(s, u) ==
    IF ~s[u].present
    THEN [err |-> TRUE, store |-> s]
    ELSE [err |-> FALSE, store |-> [s EXCEPT ![u].failed = 1]]

IncrementFailedChecks(s, u) ==
    IF ~s[u].present
    THEN [err |-> TRUE, store |-> s]
    ELSE [err |-> FALSE, store |-> [s EXCEPT ![u].failed = @ + 1]]

ResetFailedChecks(s, u) ==
    IF ~s[u].present
    THEN [err |-> TRUE, store |-> s]
    ELSE [err |-> FALSE, store |-> [s EXCEPT ![u].failed = 0]]

(* --------------------------- router.ProxyRouter ------------------------ *)

ConfigOf(row) ==
    IF row.present
    THEN [present |-> TRUE, password |-> row.password, target |-> row.target]
    ELSE NoConfig

loadCache(s) == [u \in DOMAIN s |-> ConfigOf(s[u])]

(* mutant: the password comparison is missing *)
GetProxy_AnyPassword(c, username, password) ==
    IF ~c[username].present
    THEN [found |-> FALSE, config |-> NoConfig]
    ELSE [found |-> TRUE, config |-> c[username]]

GetProxy(c, username, password) ==
    IF ~c[username].present \/ c[username].password # password
    THEN [found |-> FALSE, config |-> NoConfig]
    ELSE [found |-> TRUE, config |-> c[username]]

GetAllProxies(c) == {u \in DOMAIN c : c[u].present}

(* A mutation holds pr.mu from its first step to its last.  The first step *)
(* takes the lock, reads the cache and makes the one store call: AddProxy, *)
(* UpdateProxy and RemoveProxy give what it returns ("none": it goes on to *)
(* the in-memory write, kept in mu), and the table after the store call.   *)
(* A failure returns at once (the deferred Unlock runs).                   *)

Unlocked == mu.op = "none"

(* mutant: no look at the cache before the store call *)
AddProxy_NoExistsCheck(c, s, username, password, target) ==
    LET r == Create(s, username, password, target) IN
    IF r.err
    THEN [ret |-> "storeerr", store |-> s, mu |-> NoOp]
    ELSE [ret |-> "none", store |-> r.store,
          mu |-> [op |-> "add", username |-> username,
                  password |-> password, target |-> target]]

AddProxy(c, s, username, password, target) ==
    IF c[username].present
    THEN [ret |-> "exists", store |-> s, mu |-> NoOp]
    ELSE LET r == Create(s, username, password, target) IN
         IF r.err
         THEN [ret |-> "storeerr", store |-> s, mu |-> NoOp]
         ELSE [ret |-> "none", store |-> r.store,
               mu |-> [op |-> "add", username |-> username,
                       password |-> password, target |-> target]]

(* mutant: the error of the store call is ignored *)
UpdateProxy_IgnoresStoreError(c, s, username, password, target) ==
    IF ~c[username].present
    THEN [ret |-> "notfound", store |-> s, mu |-> NoOp]
    ELSE LET r == Update(s, username, password, target) IN
         [ret |-> "none", store |-> r.store,
          mu |-> [op |-> "update", username |-> username,
                  password |-> password, target |-> target]]

(* mutant: no look at the cache before the store call *)
UpdateProxy_NoExistsCheck(c, s, username, password, target) ==
    LET r == Update(s, username, password, target) IN
    IF r.err
    THEN [ret |-> "storeerr", store |-> s, mu |-> NoOp]
    ELSE [ret |-> "none", store |-> r.store,
          mu |-> [op |-> "update", username |-> username,
                  password |-> password, target |-> target]]

UpdateProxy(c, s, username, password, target) ==
    IF ~c[username].present
    THEN [ret |-> "notfound", store |-> s, mu |-> NoOp]
    ELSE LET r == Update(s, username, password, target) IN
         IF r.err
         THEN [ret |-> "storeerr", store |-> s, mu |-> NoOp]
         ELSE [ret |-> "none", store |-> r.store,
               mu |-> [op |-> "update", username |-> username,
                       password |-> password, target |-> target]]

RemoveProxy(c, s, username) ==
    IF ~c[username].present
    THEN [ret |-> "notfound", store |-> s, mu |-> NoOp]
    ELSE LET r == Delete(s, username) IN
         IF r.err
         THEN [ret |-> "storeerr", store |-> s, mu |-> NoOp]
         ELSE [ret |-> "none", store |-> r.store,
               mu |-> [op |-> "remove", username |-> username,
                       password |-> 0, target |-> 0]]

(* A *ProxyConfig that GetProxy handed out points to the struct of the     *)
(* cache: while the struct is in the cache its fields are the cache's,     *)
(* after delete(pr.cache, username) the struct keeps the values it had.    *)
NilConfig == [ref |-> "nil", username |-> 0, password |-> 0, target |-> 0]

Deref(h, c) ==
    IF h.ref = "cache"
    THEN [password |-> c[h.username].password, target |-> c[h.username].target]
    ELSE [password |-> h.password, target |-> h.target]

Detach(h, c, username) ==
    IF h.ref = "cache" /\ h.username = username
    THEN [ref |-> "detached", username |-> username,
          password |-> c[username].password, target |-> c[username].target]
    ELSE h

(* the pointer that a handler in progress holds *)
DetachConfig(h, c, username) ==
    IF h.hpc = "idle" THEN h
    ELSE [h EXCEPT !.hconfig = Detach(@, c, username)]

AddProxyCall(username, password, target) ==
    /\ Unlocked
    /\ LET r == AddProxy(cache, store, username, password, target) IN
       /\ ret' = r.ret
       /\ store' = r.store
       /\ mu' = r.mu
       /\ streak' = IF r.mu.op = "add"
                    THEN [streak EXCEPT ![username] = 0] ELSE streak
       /\ evicted' = IF r.mu.op = "add"
                     THEN [evicted EXCEPT ![username] = FALSE] ELSE evicted
    /\ UNCHANGED <<cache, removed, conf, handler, lister>>
    /\ UNCHANGED <<cvars, lvars>>

(* pr.cache[username] = &ProxyConfig{...}; return nil *)
AddProxyStore ==
    /\ mu.op = "add"
    /\ cache' = [cache EXCEPT ![mu.username] =
                    [present |-> TRUE, password |-> mu.password,
                     target |-> mu.target]]
    /\ mu' = NoOp
    /\ ret' = "ok"
    /\ removed' = [removed EXCEPT ![mu.username] = FALSE]
    /\ UNCHANGED <<store, conf, handler, lister>>
    /\ UNCHANGED <<cvars, lvars, gvars>>

UpdateProxyCall(username, password, target) ==
    /\ Unlocked
    /\ LET r == UpdateProxy(cache, store, username, password, target) IN
       /\ ret' = r.ret
       /\ store' = r.store
       /\ mu' = r.mu
    /\ UNCHANGED <<cache, removed, conf, handler, lister>>
    /\ UNCHANGED <<cvars, lvars, gvars>>

(* config.Password = password *)
UpdateProxyPassword ==
    /\ mu.op = "update"
    /\ cache' = [cache EXCEPT ![mu.username].password = mu.password]
    /\ mu' = [mu EXCEPT !.op = "update2"]
    /\ ret' = "none"
    /\ UNCHANGED <<store, removed, conf, handler, lister>>
    /\ UNCHANGED <<cvars, lvars, gvars>>

(* config.Target = target; return nil *)
UpdateProxyTarget ==
    /\ mu.op = "update2"
    /\ cache' = [cache EXCEPT ![mu.username].target = mu.target]
    /\ mu' = NoOp
    /\ ret' = "ok"
    /\ UNCHANGED <<store, removed, conf, handler, lister>>
    /\ UNCHANGED <<cvars, lvars, gvars>>

RemoveProxyCall(username) ==
    /\ Unlocked
    /\ LET r == RemoveProxy(cache, store, username) IN
       /\ ret' = r.ret
       /\ store' = r.store
       /\ mu' = r.mu
       /\ streak' = IF r.mu.op = "remove"
                    THEN [streak EXCEPT ![username] = 0] ELSE streak
    /\ UNCHANGED <<cache, removed, conf, handler, lister, evicted>>
    /\ UNCHANGED <<cvars, lvars>>

(* mutant: the in-memory delete is missing *)
RemoveProxyDelete_KeepsEntry ==
    /\ mu.op = "remove"
    /\ mu' = NoOp
    /\ ret' = "ok"
    /\ removed' = [removed EXCEPT ![mu.username] = TRUE]
    /\ handler' = DetachConfig(handler, cache, mu.username)
    /\ UNCHANGED <<store, cache, conf, lister>>
    /\ UNCHANGED <<cvars, lvars, gvars>>

(* delete(pr.cache, username); return nil *)
RemoveProxyDelete ==
    /\ mu.op = "remove"
    /\ cache' = [cache EXCEPT ![mu.username] = NoConfig]
    /\ mu' = NoOp
    /\ ret' = "ok"
    /\ removed' = [removed EXCEPT ![mu.username] = TRUE]
    /\ handler' = DetachConfig(handler, cache, mu.username)
    /\ UNCHANGED <<store, conf, lister>>
    /\ UNCHANGED <<cvars, lvars, gvars>>

(* ---------------------------- checker.Service -------------------------- *)

MaxFailedChecks(c) == IF c = 0 THEN DefaultMaxFailedChecks ELSE c

(* the records of the snapshot: Username and Target are all Check reads *)
Snapshot(s) == [u \in DOMAIN s |-> IF u \in FindAll(s) THEN s[u].target ELSE 0]

InSnapshot == {u \in DOMAIN proxies : proxies[u] # 0}

(* checkSingleProxy: `healthy' is the upstream's answer (the TCP connect    *)
(* succeeds and the GET through it returns a status in 200..399).  The     *)
(* dial and the GET both carry ctx, so a probe that ends after ctx is      *)
(* cancelled ends in an error whatever the upstream would have answered.   *)
checkSingleProxy(username, ctxDone, healthy) ==
    [Username |-> username, Success |-> (~ctxDone /\ healthy)]

(* mutant: the semaphore has one slot too many *)
SemaphoreFree_OneMore(n) == n <= SemaphoreCap

SemaphoreFree(n) == n < SemaphoreCap

(* mutant: resultChan is made with the size of the semaphore *)
ResultChanCap_Semaphore(snapshot) == SemaphoreCap

ResultChanCap(snapshot) == Cardinality({u \in DOMAIN snapshot : snapshot[u] # 0})

(* wg.Wait() returns: every goroutine of the snapshot has called wg.Done() *)
WaitGroupDone == \A u \in InSnapshot : task[u] = "done"

(* Check up to the dispatch loop: FindAll, the two channels, one goroutine *)
(* per record.  An empty snapshot dispatches nothing.                      *)
CheckBegin ==
    /\ proxies' = Snapshot(store)
    /\ task' = [u \in DOMAIN store |->
                    IF u \in FindAll(store) THEN "wait" ELSE "none"]
    /\ semaphore' = 0
    /\ resultChan' = <<>>
    /\ chanClosed' = FALSE
    /\ collectPc' = "recv"
    /\ cur' = NoResult
    /\ received' = [u \in DOMAIN store |-> 0]
    /\ loopPc' = "check"

InitialCheck ==
    /\ loopPc = "start"
    /\ CheckBegin
    /\ ret' = "none"
    /\ UNCHANGED <<rvars, conf, handler, lister, cancelled, tick, gvars>>

(* mutant: the tick starts a Check without waiting for the running one *)
TickCheck_NoWait ==
    /\ loopPc \in {"select", "check"}
    /\ tick
    /\ tick' = FALSE
    /\ CheckBegin
    /\ ret' = "none"
    /\ UNCHANGED <<rvars, conf, handler, lister, cancelled, gvars>>

(* case <-ticker.C: s.Check(ctx) *)
TickCheck ==
    /\ loopPc = "select"
    /\ tick
    /\ tick' = FALSE
    /\ CheckBegin
    /\ ret' = "none"
    /\ UNCHANGED <<rvars, conf, handler, lister, cancelled, gvars>>

LoopStop ==
    /\ loopPc = "select"
    /\ cancelled
    /\ loopPc' = "stopped"
    /\ ret' = "none"
    /\ UNCHANGED <<rvars, conf, handler, lister, cancelled, tick, cvars, gvars>>

Tick ==
    /\ loopPc # "stopped"
    /\ ~tick
    /\ tick' = TRUE
    /\ ret' = "none"
    /\ UNCHANGED <<rvars, conf, handler, lister, cancelled, loopPc, cvars, gvars>>

Cancel ==
    /\ ~cancelled
    /\ cancelled' = TRUE
    /\ ret' = "none"
    /\ UNCHANGED <<rvars, conf, handler, lister, tick, loopPc, cvars, gvars>>

(* goroutine of one record: semaphore <- struct{}{} *)
TaskAcquire(u) ==
    /\ loopPc = "check"
    /\ task[u] = "wait"
    /\ SemaphoreFree(semaphore)
    /\ semaphore' = semaphore + 1
    /\ task' = [task EXCEPT ![u] = "probe"]
    /\ ret' = "none"
    /\ UNCHANGED <<rvars, conf, handler, lister, lvars, gvars>>
    /\ UNCHANGED <<proxies, resultChan, chanClosed, collectPc, cur, received>>

(* result := s.checkSingleProxy(ctx, p); resultChan <- result *)
TaskReport(u, healthy) ==
    /\ loopPc = "check"
    /\ task[u] = "probe"
    /\ Len(resultChan) < ResultChanCap(proxies)
    /\ resultChan' = Append(resultChan,
                            checkSingleProxy(u, cancelled, healthy))
    /\ task' = [task EXCEPT ![u] = "sent"]
    /\ ret' = "none"
    /\ UNCHANGED <<rvars, conf, handler, lister, lvars, gvars>>
    /\ UNCHANGED <<proxies, semaphore, chanClosed, collectPc, cur, received>>

(* the deferred calls: <-semaphore, then wg.Done() *)
TaskRelease(u) ==
    /\ loopPc = "check"
    /\ task[u] = "sent"
    /\ semaphore' = semaphore - 1
    /\ task' = [task EXCEPT ![u] = "done"]
    /\ ret' = "none"
    /\ UNCHANGED <<rvars, conf, handler, lister, lvars, gvars>>
    /\ UNCHANGED <<proxies, resultChan, chanClosed, collectPc, cur, received>>

(* go func() { wg.Wait(); close(resultChan) }() *)
CloseResultChan ==
    /\ loopPc = "check"
    /\ InSnapshot # {}
    /\ ~chanClosed
    /\ WaitGroupDone
    /\ chanClosed' = TRUE
    /\ ret' = "none"
    /\ UNCHANGED <<rvars, conf, handler, lister, lvars, gvars>>
    /\ UNCHANGED <<proxies, task, semaphore, resultChan, collectPc, cur, received>>

(* for result := range resultChan: receive, then the first store call *)
CollectResult ==
    /\ loopPc = "check"
    /\ collectPc = "recv"
    /\ resultChan # <<>>
    /\ LET result == Head(resultChan)
           u == result.Username
       IN  /\ resultChan' = Tail(resultChan)
           /\ received' = [received EXCEPT ![u] = @ + 1]
           /\ IF result.Success
              THEN LET r == ResetFailedChecks(store, u) IN
                   /\ store' = r.store
                   /\ streak' = [streak EXCEPT ![u] = 0]
                   /\ UNCHANGED <<collectPc, cur>>
              ELSE LET r == IncrementFailedChecks(store, u) IN
                   /\ store' = r.store
                   /\ streak' = IF r.err THEN streak
                                ELSE [streak EXCEPT ![u] = @ + 1]
                   /\ collectPc' = IF r.err THEN "recv" ELSE "find"
                   /\ cur' = IF r.err THEN NoResult ELSE result
    /\ ret' = "none"
    /\ UNCHANGED <<cache, mu, removed, conf, handler, lister, lvars, evicted>>
    /\ UNCHANGED <<proxies, task, semaphore, chanClosed>>

(* mutant: the record is deleted only above the threshold *)
CollectFind_Above ==
    /\ loopPc = "check"
    /\ collectPc = "find"
    /\ LET proxy == FindByUsername(store, cur.Username) IN
       IF proxy.present /\ proxy.failed > MaxFailedChecks(conf)
       THEN /\ collectPc' = "delete"
            /\ UNCHANGED cur
       ELSE /\ collectPc' = "recv"
            /\ cur' = NoResult
    /\ ret' = "none"
    /\ UNCHANGED <<rvars, conf, handler, lister, lvars, gvars>>
    /\ UNCHANGED <<proxies, task, semaphore, resultChan, chanClosed, received>>

(* proxy, err := s.repo.FindByUsername(...); the threshold comparison *)
CollectFind ==
    /\ loopPc = "check"
    /\ collectPc = "find"
    /\ LET proxy == FindByUsername(store, cur.Username) IN
       IF proxy.present /\ proxy.failed >= MaxFailedChecks(conf)
       THEN /\ collectPc' = "delete"
            /\ UNCHANGED cur
       ELSE /\ collectPc' = "recv"
            /\ cur' = NoResult
    /\ ret' = "none"
    /\ UNCHANGED <<rvars, conf, handler, lister, lvars, gvars>>
    /\ UNCHANGED <<proxies, task, semaphore, resultChan, chanClosed, received>>

(* s.repo.Delete(result.Username) *)
CollectDelete ==
    /\ loopPc = "check"
    /\ collectPc = "delete"
    /\ LET r == Delete(store, cur.Username) IN
       /\ store' = r.store
       /\ evicted' = IF r.err THEN evicted
                     ELSE [evicted EXCEPT ![cur.Username] = TRUE]
       /\ streak' = IF r.err THEN streak
                    ELSE [streak EXCEPT ![cur.Username] = 0]
    /\ collectPc' = "recv"
    /\ cur' = NoResult
    /\ ret' = "none"
    /\ UNCHANGED <<cache, mu, removed, conf, handler, lister, lvars>>
    /\ UNCHANGED <<proxies, task, semaphore, resultChan, chanClosed, received>>

(* Check returns: at once on an empty snapshot, else when the range loop   *)
(* finds resultChan closed and drained.                                    *)
CheckReturn ==
    /\ loopPc = "check"
    /\ collectPc = "recv"
    /\ \/ InSnapshot = {}
       \/ chanClosed /\ resultChan = <<>>
    /\ loopPc' = "select"
    /\ proxies' = [u \in DOMAIN store |-> 0]
    /\ task' = [u \in DOMAIN store |-> "none"]
    /\ semaphore' = 0
    /\ chanClosed' = FALSE
    /\ received' = [u \in DOMAIN store |-> 0]
    /\ ret' = "none"
    /\ UNCHANGED <<rvars, conf, handler, lister, cancelled, tick, gvars>>
    /\ UNCHANGED <<resultChan, collectPc, cur>>

(* ------------------------------ server.Server -------------------------- *)
(* A string the handler parses is a sequence of symbols: 1 and 2 are the   *)
(* letters the usernames and passwords of the table are made of, Colon is  *)
(* ":".  A header value is a sequence of words that single spaces join.    *)

Colon == 0
AuthSymbols == {Colon, 1, 2}

Word(w) == [w |-> w, valid |-> FALSE, text |-> <<>>]
(* a word that base64.StdEncoding decodes to `text' *)
Base64(text) == [w |-> "base64", valid |-> TRUE, text |-> text]
(* a word that base64.StdEncoding rejects *)
NotBase64 == [w |-> "not base64", valid |-> FALSE, text |-> <<>>]

(* the string of the table that a parsed string denotes: the one-letter    *)
(* strings are the usernames and passwords in use, 0 is any other string   *)
Str(s) == IF Len(s) = 1 THEN s[1] ELSE 0

(* strings.SplitN(authHeader, " ", 2): what follows the first space stays  *)
(* one part; with a further space in it, it is no base64 text              *)
SplitSpace2(h) == IF Len(h) <= 2 THEN h ELSE <<h[1], NotBase64>>

IndexColon(text) ==
    IF \E i \in 1..Len(text) : text[i] = Colon
    THEN CHOOSE i \in 1..Len(text) :
            text[i] = Colon /\ \A j \in 1..(i - 1) : text[j] # Colon
    ELSE 0

(* mutant: the split is at the last colon *)
SplitColon2_LastColon(text) ==
    IF \A i \in 1..Len(text) : text[i] # Colon THEN <<text>>
    ELSE LET i == CHOOSE k \in 1..Len(text) :
                    text[k] = Colon /\ \A j \in (k + 1)..Len(text) : text[j] # Colon
         IN  <<SubSeq(text, 1, i - 1), SubSeq(text, i + 1, Len(text))>>

(* strings.SplitN(string(decoded), ":", 2) *)
SplitColon2(text) ==
    LET i == IndexColon(text) IN
    IF i = 0 THEN <<text>>
    ELSE <<SubSeq(text, 1, i - 1), SubSeq(text, i + 1, Len(text))>>

AuthFailure == [ok |-> FALSE, username |-> <<>>, password |-> <<>>]

parseProxyAuth(authHeader) ==
    IF authHeader = <<>> THEN AuthFailure
    ELSE LET parts == SplitSpace2(authHeader) IN
         IF Len(parts) # 2 THEN AuthFailure
         ELSE IF parts[1].w # "Basic" THEN AuthFailure
         ELSE IF ~parts[2].valid THEN AuthFailure
         ELSE LET credentials == SplitColon2(parts[2].text) IN
              IF Len(credentials) # 2 THEN AuthFailure
              ELSE [ok |-> TRUE, username |-> credentials[1],
                    password |-> credentials[2]]

(* textproto.CanonicalMIMEHeaderKey on the header names in use *)
CanonicalMIMEHeaderKey(k) ==
    CASE k \in {"proxy-authorization", "PROXY-AUTHORIZATION", "Proxy-Authorization"}
            -> "Proxy-Authorization"
      [] k \in {"proxy-connection", "PROXY-CONNECTION", "Proxy-Connection"}
            -> "Proxy-Connection"
      [] k \in {"accept", "Accept"} -> "Accept"
      [] OTHER -> k

(* r.Header as the server read it: the keys are canonical *)
Header(r) ==
    {CanonicalMIMEHeaderKey(n) :
        n \in r.names \cup (IF r.authName = "" THEN {} ELSE {r.authName})}

(* r.Header.Get(key) *)
Get(r, key) ==
    IF r.authName # ""
       /\ CanonicalMIMEHeaderKey(r.authName) = CanonicalMIMEHeaderKey(key)
    THEN r.auth ELSE <<>>

(* Header.Del(key) *)
Del(h, key) == h \ {CanonicalMIMEHeaderKey(key)}

(* mutant: Proxy-Connection stays in the request *)
StripHeaders_KeepsProxyConnection(h) == Del(h, "Proxy-Authorization")

(* r.Header.Del("Proxy-Authorization"); r.Header.Del("Proxy-Connection") *)
StripHeaders(h) == Del(Del(h, "Proxy-Authorization"), "Proxy-Connection")

NoSent == [line |-> "none", keys |-> {}]
(* fmt.Sprintf("CONNECT %s HTTP/1.1\r\nHost: %s\r\n\r\n", r.Host, r.Host) *)
ConnectRequest == [line |-> "CONNECT", keys |-> {"Host"}]
(* r.Write(targetConn): the request line, Host, User-Agent, then r.Header *)
WriteRequest(method, h) == [line |-> method, keys |-> {"Host", "User-Agent"} \cup h]

(* A response body: its fixed text, the error string formatted into it and *)
(* the address that error string names (0: none).                          *)
Body(text) == [text |-> text, detail |-> "none", addr |-> 0]
NoResponse == [status |-> 0, challenge |-> "none", body |-> Body("")]

StatusProxyAuthRequired == 407
StatusServiceUnavailable == 503
StatusInternalServerError == 500
StatusOK == 200
StatusForbidden == 403
StatusSwitchingProtocols == 101
StatusProcessing == 102

(* w.WriteHeader(code) and the writes after it: the status of the response *)
(* that the client gets.  net/http sends a 1xx code other than 101 as an   *)
(* informational header and leaves the response open; the first write of   *)
(* the body, or the return of the handler, then sends the status line 200. *)
WriteHeader(code) ==
    IF code \in 100..199 /\ code # StatusSwitchingProtocols THEN StatusOK ELSE code

(* http.Error(w, body, code): WriteHeader(code), then the body *)
Error(body, code) ==
    [status |-> WriteHeader(code), challenge |-> "none", body |-> body]
(* w.Header().Set("Proxy-Authenticate", "Basic realm=\"Proxy\"") *)
Challenge(r) == [r EXCEPT !.challenge = "Basic realm=Proxy"]

(* fmt.Sprintf("Cannot connect to proxy: %v", err): the *net.OpError of a  *)
(* failed dial prints as "dial tcp <address>: <cause>"                     *)
DialErrorBody(target) ==
    [text |-> "Cannot connect to proxy: ", detail |-> "dial tcp", addr |-> target]
(* err.Error() of the error that Hijack returned *)
HijackErrorBody == [text |-> "", detail |-> "hijack", addr |-> 0]

(* mutant: every reply of the upstream counts as success *)
ConnectAccepted_AnyStatus(status) == TRUE

(* resp.StatusCode == http.StatusOK *)
ConnectAccepted(status) == status = StatusOK

(* s.router.GetProxy(username, password) on the parsed strings *)
Lookup(c, username, password) ==
    IF Str(username) \in DOMAIN c
    THEN GetProxy(c, Str(username), Str(password))
    ELSE [found |-> FALSE, config |-> NoConfig]

(* mutant: the read lock does not wait for the writer *)
RLock_NoWait(m) == TRUE

(* pr.mu.RLock() returns: no mutation holds the write lock *)

RLock(m) == m.op = "none"

(* mutant: the deferred Close is missing *)
Close_Missing(conn) == conn

(* defer targetConn.Close(): runs when the handler returns *)
Close(conn) == "closed"

NoRequest == [method |-> "", auth |-> <<>>, authName |-> "", names |-> {}]

NoUpstream == [dial |-> "none", target |-> 0, wrote |-> FALSE, status |-> 0]

(* One request and its handler.  The outcome of each call on the network   *)
(* (dial, write, read of the reply, Hijack) is the environment's.  The     *)
(* locals of the handler exist from the arrival of the request on.         *)

IdleHandler == [hpc |-> "idle"]

NewHandler(r) ==
    [hpc |-> "auth", req |-> r, hconfig |-> NilConfig,
     observed |-> [found |-> FALSE, config |-> NoConfig],
     resp |-> NoResponse, targetConn |-> "none", clientConn |-> "http",
     established |-> FALSE, copyUp |-> "none", sent |-> NoSent,
     upstream |-> NoUpstream]

(* handleHTTP: the position of the handler of the request *)
hpc == handler.hpc
Serving == hpc # "idle"
(* the inbound request (r) *)
req == IF Serving THEN handler.req ELSE NoRequest
(* the *ProxyConfig that GetProxy returned to the handler *)
hconfig == IF Serving THEN handler.hconfig ELSE NilConfig
(* history: what GetProxy read while it held the read lock *)
observed ==
    IF Serving THEN handler.observed ELSE [found |-> FALSE, config |-> NoConfig]
(* the response written to the client through w *)
resp == IF Serving THEN handler.resp ELSE NoResponse
(* the upstream connection: "none", "open", "closed" *)
targetConn == IF Serving THEN handler.targetConn ELSE "none"
(* the client connection: "http" (the server's), "hijacked", "closed" *)
clientConn == IF Serving THEN handler.clientConn ELSE "http"
(* the 200 Connection Established line was written *)
established == Serving /\ handler.established
(* go io.Copy(targetConn, clientConn): "none", "running", "done" *)
copyUp == IF Serving THEN handler.copyUp ELSE "none"
(* what the handler wrote to the upstream connection *)
sent == IF Serving THEN handler.sent ELSE NoSent
(* history: the dial, the write and the reply of the upstream *)
upstream == IF Serving THEN handler.upstream ELSE NoUpstream

(* mutant: a handler step drops the entries of the cache *)
HandlerFrame_DropsCache ==
    /\ ret' = "none"
    /\ cache' = [u \in DOMAIN cache |-> NoConfig]
    /\ UNCHANGED <<store, mu, removed, conf, lister, cvars, lvars, gvars>>

(* what a step of the handler leaves alone: all but its own locals *)
HandlerFrame ==
    /\ ret' = "none"
    /\ UNCHANGED <<rvars, conf, lister, cvars, lvars, gvars>>

(* the server read a request and calls s.handleHTTP *)
RequestArrives(r) ==
    /\ hpc = "idle"
    /\ handler' = NewHandler(r)
    /\ HandlerFrame

(* parseProxyAuth(r.Header.Get("Proxy-Authorization")) and the !ok branch *)
HandleAuth ==
    /\ hpc = "auth"
    /\ handler' =
         IF parseProxyAuth(Get(req, "Proxy-Authorization")).ok
         THEN [handler EXCEPT !.hpc = "getproxy"]
         ELSE [handler EXCEPT
                 !.resp = Challenge(Error(Body("Proxy Authentication Required"),
                                          StatusProxyAuthRequired)),
                 !.hpc = "returned"]
    /\ HandlerFrame

(* GetProxy: pr.mu.RLock() *)
GetProxyRLock ==
    /\ hpc = "getproxy"
    /\ RLock(mu)
    /\ handler' = [handler EXCEPT !.hpc = "rlocked"]
    /\ HandlerFrame

(* GetProxy: the read of the cache, RUnlock, and in handleHTTP the !valid  *)
(* branch or the dispatch on r.Method                                      *)
GetProxyReturn ==
    /\ hpc = "rlocked"
    /\ LET a == parseProxyAuth(Get(req, "Proxy-Authorization"))
           r == Lookup(cache, a.username, a.password)
       IN  handler' =
             IF r.found
             THEN [handler EXCEPT
                     !.observed = r,
                     !.hconfig = [ref |-> "cache", username |-> Str(a.username),
                                  password |-> 0, target |-> 0],
                     !.hpc = IF req.method = "CONNECT" THEN "cdial" ELSE "fdial"]
             ELSE [handler EXCEPT
                     !.observed = r,
                     !.resp = Challenge(Error(Body("Invalid credentials"),
                                              StatusProxyAuthRequired)),
                     !.hpc = "returned"]
    /\ HandlerFrame

(* net.DialTimeout("tcp", config.Target, 10*time.Second) of either path    *)
Dial(ok, next) ==
    LET target == Deref(hconfig, cache).target IN
    /\ handler' =
         IF ok
         THEN [handler EXCEPT
                 !.upstream = [@ EXCEPT !.dial = "ok", !.target = target],
                 !.targetConn = "open",
                 !.hpc = next]
         ELSE [handler EXCEPT
                 !.upstream = [@ EXCEPT !.dial = "failed", !.target = target],
                 !.resp = Error(DialErrorBody(target), StatusServiceUnavailable),
                 !.hpc = "returned"]
    /\ HandlerFrame

ConnectDial(ok) ==
    /\ hpc = "cdial"
    /\ Dial(ok, "cwrite")

(* targetConn.Write([]byte(connectReq)) *)
ConnectWrite(ok) ==
    /\ hpc = "cwrite"
    /\ handler' =
         IF ok
         THEN [handler EXCEPT
                 !.sent = ConnectRequest,
                 !.upstream = [@ EXCEPT !.wrote = TRUE],
                 !.hpc = "cread"]
         ELSE [handler EXCEPT
                 !.resp = Error(Body("Failed to send CONNECT"),
                                StatusInternalServerError),
                 !.targetConn = Close(@),
                 !.hpc = "returned"]
    /\ HandlerFrame

(* http.ReadResponse(reader, r) and the status comparison; status 0: the   *)
(* read failed                                                             *)
ConnectRead(status) ==
    /\ hpc = "cread"
    /\ handler' =
         IF status = 0
         THEN [handler EXCEPT
                 !.upstream = [@ EXCEPT !.status = status],
                 !.resp = Error(Body("Failed to read proxy response"),
                                StatusInternalServerError),
                 !.targetConn = Close(@),
                 !.hpc = "returned"]
         ELSE IF ~ConnectAccepted(status)
         THEN [handler EXCEPT
                 !.upstream = [@ EXCEPT !.status = status],
                 !.resp = Error(Body("Proxy returned: "), status),
                 !.targetConn = Close(@),
                 !.hpc = "returned"]
         ELSE [handler EXCEPT
                 !.upstream = [@ EXCEPT !.status = status],
                 !.hpc = "chijack"]
    /\ HandlerFrame

(* hijacker.Hijack(), the 200 line, go io.Copy(targetConn, clientConn)     *)
ConnectHijack(ok) ==
    /\ hpc = "chijack"
    /\ handler' =
         IF ok
         THEN [handler EXCEPT
                 !.clientConn = "hijacked",
                 !.established = TRUE,
                 !.copyUp = "running",
                 !.hpc = "splice"]
         ELSE [handler EXCEPT
                 !.resp = Error(HijackErrorBody, StatusServiceUnavailable),
                 !.targetConn = Close(@),
                 !.hpc = "returned"]
    /\ HandlerFrame

(* the client ends its stream (or its connection fails): the copy of the   *)
(* spawned goroutine returns                                               *)
ClientEOF ==
    /\ hpc = "splice"
    /\ copyUp = "running"
    /\ handler' = [handler EXCEPT !.copyUp = "done"]
    /\ HandlerFrame

(* the upstream ends its stream (or a copy to the client fails): the copy  *)
(* of the handler returns, the deferred Close calls run, the handler       *)
(* returns                                                                 *)
UpstreamEOF ==
    /\ hpc = "splice"
    /\ handler' = [handler EXCEPT !.clientConn = "closed",
                                  !.targetConn = Close(@),
                                  !.hpc = "returned"]
    /\ HandlerFrame

(* the spawned copy reads from the closed connection and returns *)
CopyUpExit ==
    /\ hpc = "returned"
    /\ copyUp = "running"
    /\ handler' = [handler EXCEPT !.copyUp = "done"]
    /\ HandlerFrame

ForwardDial(ok) ==
    /\ hpc = "fdial"
    /\ Dial(ok, "fwrite")

(* the two Header.Del calls and r.Write(targetConn) *)
ForwardWrite(ok) ==
    /\ hpc = "fwrite"
    /\ handler' =
         IF ok
         THEN [handler EXCEPT
                 !.sent = WriteRequest(req.method, StripHeaders(Header(req))),
                 !.upstream = [@ EXCEPT !.wrote = TRUE],
                 !.hpc = "fread"]
         ELSE [handler EXCEPT
                 !.resp = Error(Body("Failed to send request to proxy"),
                                StatusInternalServerError),
                 !.targetConn = Close(@),
                 !.hpc = "returned"]
    /\ HandlerFrame

(* the upstream's reply as the handler copies it to w *)
Relay(status) ==
    [status |-> WriteHeader(status), challenge |-> "none", body |-> Body("upstream body")]

(* http.ReadResponse, then the copy of the upstream's status, headers and  *)
(* body to w; status 0: the read failed                                    *)
ForwardRead(status) ==
    /\ hpc = "fread"
    /\ handler' =
         [handler EXCEPT
             !.upstream = [@ EXCEPT !.status = status],
             !.resp = IF status = 0
                      THEN Error(Body("Failed to read proxy response"),
                                 StatusInternalServerError)
                      ELSE Relay(status),
             !.targetConn = Close(@),
             !.hpc = "returned"]
    /\ HandlerFrame

(* GetAllProxies, called by a client of the router that keeps the list.    *)
(* An element of the list is a pointer to a struct: "copy" is a struct of  *)
(* the list's own, "cache" the struct that pr.cache holds.                 *)

IdleLister == [lpc |-> "idle"]

(* GetAllProxies: the position of the call: "idle", "rlocked", "returned" *)
lpc == lister.lpc

(* mutant: append(result, config), the pointer of the cache *)
CopyConfig_SharesPointer(c, username) ==
    [ref |-> "cache", username |-> username,
     password |-> c[username].password, target |-> c[username].target]

(* &ProxyConfig{ID: config.ID, Username: config.Username, ...} *)
CopyConfig(c, username) ==
    [ref |-> "copy", username |-> username,
     password |-> c[username].password, target |-> c[username].target]

(* the fields that a caller reads through an element of the list *)
ListDeref(e, c) ==
    IF e.ref = "cache" /\ c[e.username].present
    THEN [password |-> c[e.username].password, target |-> c[e.username].target]
    ELSE [password |-> e.password, target |-> e.target]

(* GetAllProxies: pr.mu.RLock() *)
GetAllProxiesRLock ==
    /\ lpc = "idle"
    /\ RLock(mu)
    /\ lister' = [lpc |-> "rlocked"]
    /\ ret' = "none"
    /\ UNCHANGED <<rvars, conf, handler, cvars, lvars, gvars>>

(* GetAllProxies: the loop over pr.cache, RUnlock, return; `at' is history: *)
(* the cache that the loop read                                            *)
GetAllProxiesReturn ==
    /\ lpc = "rlocked"
    /\ lister' = [lpc |-> "returned",
                  result |-> [u \in GetAllProxies(cache) |-> CopyConfig(cache, u)],
                  at |-> cache]
    /\ ret' = "none"
    /\ UNCHANGED <<rvars, conf, handler, cvars, lvars, gvars>>

(* the caller drops the list *)
ListDrop ==
    /\ lpc = "returned"
    /\ lister' = IdleLister
    /\ ret' = "none"
    /\ UNCHANGED <<rvars, conf, handler, cvars, lvars, gvars>>

(* pr.mu.Lock() returns: no reader is inside GetProxy or GetAllProxies     *)
(* (that no mutation holds the lock is the guard Unlocked of the           *)
(* mutation's first step)                                                  *)
Lock == hpc # "rlocked" /\ lpc # "rlocked"

(* ------------------------------ specifications ------------------------- *)

ValidStore(s) ==
    \A u, v \in DOMAIN s :
        (u # v /\ s[u].present /\ s[v].present) => s[u].target # s[v].target

InitRows ==
    {NoRow} \cup {[present |-> TRUE, password |-> p, target |-> t, failed |-> 0] :
                    p \in Passwords, t \in Targets}

InitCommon ==
    /\ cache = loadCache(store)
    /\ mu = NoOp
    /\ ret = "none"
    /\ cancelled = FALSE
    /\ tick = FALSE
    /\ loopPc = "start"
    /\ proxies = [u \in DOMAIN store |-> 0]
    /\ task = [u \in DOMAIN store |-> "none"]
    /\ semaphore = 0
    /\ resultChan = <<>>
    /\ chanClosed = FALSE
    /\ collectPc = "recv"
    /\ cur = NoResult
    /\ received = [u \in DOMAIN store |-> 0]
    /\ streak = [u \in DOMAIN store |-> 0]
    /\ evicted = [u \in DOMAIN store |-> FALSE]
    /\ removed = [u \in DOMAIN store |-> FALSE]
    /\ handler = IdleHandler
    /\ lister = IdleLister

Init ==
    /\ store \in {s \in [Usernames -> InitRows] : ValidStore(s)}
    /\ conf \in ConfValues
    /\ InitCommon

Next ==
    \/ \E u \in Usernames, p \in Passwords, t \in Targets : AddProxyCall(u, p, t)
    \/ AddProxyStore
    \/ \E u \in Usernames, p \in Passwords, t \in Targets : UpdateProxyCall(u, p, t)
    \/ UpdateProxyPassword
    \/ UpdateProxyTarget
    \/ \E u \in Usernames : RemoveProxyCall(u)
    \/ RemoveProxyDelete
    \/ InitialCheck
    \/ TickCheck
    \/ Tick
    \/ \E u \in Usernames : TaskAcquire(u)
    \/ \E u \in Usernames, healthy \in BOOLEAN : TaskReport(u, healthy)
    \/ \E u \in Usernames : TaskRelease(u)
    \/ CloseResultChan
    \/ CollectResult
    \/ CollectFind
    \/ CollectDelete
    \/ CheckReturn

Spec == Init /\ [][Next]_vars

(* The same program with the shutdown signal: the context of main can be   *)
(* cancelled at any moment, and the loop may then take its ctx.Done() case. *)
(* A cancelled probe fails, which Spec already allows for every probe, so  *)
(* the shutdown adds no store or cache contents to those of Spec.          *)

NextShutdown ==
    \/ Next
    \/ Cancel
    \/ LoopStop

SpecShutdown == Init /\ [][NextShutdown]_vars

(* A health-check cycle over a large registry, with no routing calls.  The *)
(* goroutines of a cycle run the same code on interchangeable records, so  *)
(* one schedule per permutation class is explored: among the goroutines at *)
(* the same position the one of the lowest username moves first.  Records  *)
(* with an odd username have a healthy upstream.                           *)

FirstAt(u, position) ==
    \A v \in DOMAIN task : v < u => task[v] # position

Healthy(u) == u % 2 = 1

InitCycle ==
    /\ store \in {[u \in AllUsernames |-> NoRow],
                  [u \in AllUsernames |->
                      [present |-> TRUE, password |-> 1, target |-> u, failed |-> 0]]}
    /\ conf = 0
    /\ InitCommon

NextCycle ==
    \/ InitialCheck
    \/ TickCheck
    \/ Tick
    \/ \E u \in AllUsernames : FirstAt(u, "wait") /\ TaskAcquire(u)
    \/ \E u \in AllUsernames : FirstAt(u, "probe") /\ TaskReport(u, Healthy(u))
    \/ \E u \in AllUsernames : FirstAt(u, "sent") /\ TaskRelease(u)
    \/ CloseResultChan
    \/ CollectResult
    \/ CollectFind
    \/ CollectDelete
    \/ CheckReturn

SpecCycle == InitCycle /\ [][NextCycle]_vars

(* fairness: the Go scheduler runs every goroutine that can take a step    *)
CycleStep ==
    \/ \E u \in AllUsernames : FirstAt(u, "wait") /\ TaskAcquire(u)
    \/ \E u \in AllUsernames : FirstAt(u, "probe") /\ TaskReport(u, Healthy(u))
    \/ \E u \in AllUsernames : FirstAt(u, "sent") /\ TaskRelease(u)
    \/ CloseResultChan
    \/ CollectResult
    \/ CollectFind
    \/ CollectDelete
    \/ CheckReturn

SpecCycleFair == SpecCycle /\ WF_vars(CycleStep)

(* The request handler over a fixed table: one request, every header       *)
(* shape, every outcome of the network.                                    *)

BasicAuth(text) == <<Word("Basic"), Base64(text)>>

WellFormedAuth == {BasicAuth(<<u, Colon, p>>) : u \in Usernames, p \in Passwords}

(* headers that hold no credentials: another scheme, no payload, a payload *)
(* that is no base64 text, a decoded payload with no colon                 *)
MalformedAuth ==
    {<<Word("Bearer"), Base64(<<1, Colon, 1>>)>>,
     <<Word("basic"), Base64(<<1, Colon, 1>>)>>,
     <<Word("Basic")>>,
     <<Word("Basic"), NotBase64>>,
     <<Word("Basic"), Base64(<<1, Colon, 1>>), Word("x")>>,
     BasicAuth(<<>>),
     BasicAuth(<<1>>)}

(* credentials with an empty part or with colons in the password *)
EdgeAuth ==
    {BasicAuth(<<1, Colon>>),
     BasicAuth(<<Colon, 1>>),
     BasicAuth(<<Colon>>),
     BasicAuth(<<1, Colon, Colon>>),
     BasicAuth(<<1, Colon, 1, Colon, 2>>)}

AuthValues == WellFormedAuth \cup MalformedAuth \cup EdgeAuth

Methods == {"CONNECT", "GET"}
HeaderNames == {{}, {"proxy-connection"}, {"Proxy-Connection", "Accept"}}
AuthNames == {"Proxy-Authorization", "proxy-authorization"}

Requests ==
    [method : Methods, auth : AuthValues, authName : AuthNames, names : HeaderNames]
    \cup [method : Methods, auth : {<<>>}, authName : {""}, names : HeaderNames]

(* replies of the upstream: none (0), success, a refusal, an informational *)
(* status                                                                  *)
Replies == {0, StatusOK, StatusForbidden, StatusProcessing}

HandlerStep ==
    \/ HandleAuth
    \/ GetProxyRLock
    \/ GetProxyReturn
    \/ \E ok \in BOOLEAN : ConnectDial(ok)
    \/ \E ok \in BOOLEAN : ConnectWrite(ok)
    \/ \E status \in Replies : ConnectRead(status)
    \/ \E ok \in BOOLEAN : ConnectHijack(ok)
    \/ ClientEOF
    \/ UpstreamEOF
    \/ CopyUpExit
    \/ \E ok \in BOOLEAN : ForwardDial(ok)
    \/ \E ok \in BOOLEAN : ForwardWrite(ok)
    \/ \E status \in Replies : ForwardRead(status)

NextHandler ==
    \/ \E r \in Requests : RequestArrives(r)
    \/ HandlerStep

SpecHandler == Init /\ [][NextHandler]_vars

(* fairness: the handler's goroutines run, and every call on the network   *)
(* that does not wait for a peer's data returns; the end of a peer's       *)
(* stream (ClientEOF, UpstreamEOF) is the peer's to decide                 *)
HandlerProgress ==
    \/ HandleAuth
    \/ GetProxyRLock
    \/ GetProxyReturn
    \/ \E ok \in BOOLEAN : ConnectDial(ok)
    \/ \E ok \in BOOLEAN : ConnectWrite(ok)
    \/ \E status \in Replies : ConnectRead(status)
    \/ \E ok \in BOOLEAN : ConnectHijack(ok)
    \/ CopyUpExit
    \/ \E ok \in BOOLEAN : ForwardDial(ok)
    \/ \E ok \in BOOLEAN : ForwardWrite(ok)
    \/ \E status \in Replies : ForwardRead(status)

SpecHandlerFair == SpecHandler /\ WF_vars(HandlerProgress)

(* The handler next to the mutations of the table: a request of username 1 *)
(* with either password, while AddProxy, UpdateProxy and RemoveProxy run   *)
(* on both usernames.                                                      *)

ServerRequests ==
    [method : Methods, auth : {BasicAuth(<<1, Colon, p>>) : p \in Passwords},
     authName : {"Proxy-Authorization"}, names : {{}}]

NextServer ==
    \/ \E u \in Usernames, p \in Passwords, t \in Targets :
            Lock /\ AddProxyCall(u, p, t)
    \/ AddProxyStore
    \/ \E u \in Usernames, p \in Passwords, t \in Targets :
            Lock /\ UpdateProxyCall(u, p, t)
    \/ UpdateProxyPassword
    \/ UpdateProxyTarget
    \/ \E u \in Usernames : Lock /\ RemoveProxyCall(u)
    \/ RemoveProxyDelete
    \/ \E r \in ServerRequests : RequestArrives(r)
    \/ HandlerStep

SpecServer == Init /\ [][NextServer]_vars

(* The router with a caller of GetAllProxies next to the mutations, the    *)
(* health checker off.                                                     *)

NextList ==
    \/ \E u \in Usernames, p \in Passwords, t \in Targets :
            Lock /\ AddProxyCall(u, p, t)
    \/ AddProxyStore
    \/ \E u \in Usernames, p \in Passwords, t \in Targets :
            Lock /\ UpdateProxyCall(u, p, t)
    \/ UpdateProxyPassword
    \/ UpdateProxyTarget
    \/ \E u \in Usernames : Lock /\ RemoveProxyCall(u)
    \/ RemoveProxyDelete
    \/ GetAllProxiesRLock
    \/ GetAllProxiesReturn
    \/ ListDrop

SpecList == Init /\ [][NextList]_vars

(* =============================== claims ================================ *)

NotFound == [found |-> FALSE, config |-> NoConfig]

(* C1: once the checker has evicted a record (failed probe, post-increment *)
(* counter at or beyond the maximum), the username is in neither the store *)
(* nor the routing table: GetProxy with any password is not-found and      *)
(* GetAllProxies does not list it.                                         *)
C1_EvictedEverywhere ==
    \A u \in DOMAIN store :
        evicted[u] =>
            /\ ~store[u].present
            /\ \A p \in Passwords : ~GetProxy(cache, u, p).found
            /\ u \notin GetAllProxies(cache)

(* C2: whenever no routing-table mutation is in progress, the in-memory    *)
(* map holds exactly the store's usernames with the same password and      *)
(* target.                                                                 *)
C2_CacheEqualsStore ==
    Unlocked => cache = loadCache(store)

C4_AddExisting ==
    \A u \in Usernames, p \in Passwords, t \in Targets :
        cache[u].present =>
            LET r == AddProxy(cache, store, u, p, t) IN
            /\ r.ret = "exists"
            /\ r.store = store
            /\ r.mu = NoOp

C4_Witness ==
    /\ ret = "exists"
    /\ \E u \in DOMAIN store : cache[u].present /\ store[u].present

(* C5: from a successful RemoveProxy(username) until the next successful   *)
(* AddProxy(username), GetProxy(username, any password) is not-found,      *)
(* whatever the health checker does meanwhile.                             *)
C5_RemovedStaysAbsent ==
    \A u \in DOMAIN store :
        removed[u] => \A p \in Passwords : GetProxy(cache, u, p) = NotFound

(* the username was removed while a cycle whose snapshot holds it runs, and *)
(* the cycle has handled its result                                        *)
C5_Witness ==
    \E u \in DOMAIN store :
        /\ removed[u]
        /\ Unlocked
        /\ loopPc = "check"
        /\ proxies[u] # 0
        /\ received[u] = 1

C7_DeleteOnlyAtThreshold ==
    [][\A u \in DOMAIN store :
          (collectPc = "delete" /\ collectPc' = "recv"
             /\ store[u].present /\ ~store'[u].present) =>
              store[u].failed >= MaxFailedChecks(conf)]_vars

Probing == {u \in DOMAIN task : task[u] = "probe"}
HoldingSlot == {u \in DOMAIN task : task[u] \in {"probe", "sent"}}

(* C8: at most 10 probes are in flight at any time of a cycle, whatever    *)
(* the number of records; a goroutine that finds the semaphore full waits, *)
(* and can start as soon as a slot is free.                                *)
C8_AtMostTenProbes ==
    /\ Cardinality(Probing) <= 10
    /\ Cardinality(HoldingSlot) = semaphore
    /\ \A u \in DOMAIN task :
          (loopPc = "check" /\ task[u] = "wait") =>
              (ENABLED TaskAcquire(u) <=> Cardinality(HoldingSlot) < 10)

C8_Witness ==
    /\ Cardinality(Probing) = 10
    /\ \E u \in DOMAIN task : task[u] = "wait"

ResultsOf(u) ==
    Cardinality({i \in DOMAIN resultChan : resultChan[i].Username = u})

(* the shape of a running cycle (the safety part of C9) *)
C9_CycleShape ==
    loopPc = "check" =>
        /\ \A u \in DOMAIN task :
              /\ (task[u] # "none") <=> (u \in InSnapshot)
              /\ ResultsOf(u) + received[u] =
                    (IF task[u] \in {"sent", "done"} THEN 1 ELSE 0)
              /\ task[u] = "probe" => Len(resultChan) < ResultChanCap(proxies)
        /\ chanClosed => WaitGroupDone
        /\ (chanClosed /\ resultChan = <<>> /\ collectPc = "recv") =>
              \A u \in InSnapshot : received[u] = 1
        /\ InSnapshot = {} => (resultChan = <<>> /\ collectPc = "recv")

(* C9: a cycle over a non-empty snapshot ends: every snapshot record has   *)
(* one goroutine, which delivers one result and is never blocked by the    *)
(* range loop; resultChan is closed only after all have reported; Check    *)
(* returns after handling one result per record.  A cycle over an empty    *)
(* snapshot starts no goroutine and writes nothing to the store.           *)
C9_CycleTerminates ==
    /\ []C9_CycleShape
    /\ [][(loopPc = "check" /\ InSnapshot = {}) => store' = store]_vars
    /\ (loopPc = "check") ~> (loopPc = "select")

C9_Witness ==
    /\ loopPc = "check"
    /\ Cardinality(InSnapshot) > 10
    /\ chanClosed /\ resultChan = <<>> /\ collectPc = "recv"
    /\ \A u \in InSnapshot : received[u] = 1

(* C10: once ctx is cancelled, the select of StartPeriodicCheck starts no  *)
(* further Check, also when a tick is pending.                             *)
C10_NoCycleAfterCancel ==
    [][(cancelled /\ loopPc = "select") => loopPc' # "check"]_vars

(* the handler returned on the !ok branch of parseProxyAuth *)
ParseFailed ==
    /\ hpc = "returned"
    /\ ~parseProxyAuth(Get(req, "Proxy-Authorization")).ok

(* the handler returned on the !valid branch of GetProxy *)
LookupFailed ==
    /\ hpc = "returned"
    /\ parseProxyAuth(Get(req, "Proxy-Authorization")).ok
    /\ ~observed.found

(* C11: a request whose Proxy-Authorization header is missing or malformed *)
(* and a request whose well-formed credentials fail the lookup get the     *)
(* same response: status 407, the Proxy-Authenticate challenge and the     *)
(* body of the missing-header case.                                        *)
C11_SameAuthFailure ==
    (ParseFailed \/ LookupFailed) =>
        resp = Challenge(Error(Body("Proxy Authentication Required"),
                               StatusProxyAuthRequired))

(* C12: on the CONNECT path the client connection is hijacked, and the 200 *)
(* Connection Established line written to it, only after the dial to the   *)
(* target succeeded, the CONNECT request was written and the upstream      *)
(* replied 200; when the dial fails the client gets 503 and its connection *)
(* is never hijacked.                                                      *)
C12_HijackAfterSuccess ==
    /\ (clientConn # "http" \/ established \/ copyUp # "none") =>
            /\ req.method = "CONNECT"
            /\ upstream.dial = "ok"
            /\ upstream.wrote
            /\ sent = ConnectRequest
            /\ upstream.status = StatusOK
    /\ (req.method = "CONNECT" /\ upstream.dial = "failed") =>
            /\ hpc = "returned"
            /\ resp.status = StatusServiceUnavailable
            /\ clientConn = "http"
            /\ ~established

C12_Witness ==
    /\ req.method = "CONNECT"
    /\ hpc = "splice"
    /\ clientConn = "hijacked"
    /\ established

(* C13: once the tunnel is spliced, the completion of either copy ends it: *)
(* the handler returns and both connections are closed, whether or not the *)
(* other peer ever closes or sends.                                        *)
C13_EitherCopyEndsTunnel ==
    (hpc = "splice" /\ copyUp = "done") ~>
        (hpc = "returned" /\ clientConn = "closed" /\ targetConn = "closed")

(* C14: when handleConnect has returned, the client->upstream copy that it *)
(* spawned is no longer running.                                           *)
C14_ReturnAfterBothCopies ==
    hpc = "returned" => copyUp # "running"

(* C15: a store error during AddProxy, UpdateProxy or RemoveProxy returns  *)
(* that error and leaves no in-memory write to do, and an in-memory write  *)
(* is pending only after the store accepted the same write: the row of the *)
(* username then holds the password and target about to enter the cache    *)
(* (no row, for a delete), unless the checker has deleted that row since.  *)
(* The cache is written by the pending in-memory steps only.               *)
C15_StoreErrorAborts ==
    /\ ret = "storeerr" => Unlocked
    /\ mu.op \in {"add", "update", "update2"} =>
            \/ ~store[mu.username].present
            \/ /\ store[mu.username].password = mu.password
               /\ store[mu.username].target = mu.target
    /\ mu.op = "remove" => ~store[mu.username].present

C15_Witness ==
    /\ ret = "storeerr"
    /\ \E u \in Usernames : cache[u].present /\ ~store[u].present

(* C16: no response body sent to the client holds an internal error string *)
(* or the address of the upstream target.                                  *)
C16_NoInternalDetail ==
    /\ resp.body.detail = "none"
    /\ resp.body.addr = 0

(* C17: what the handler writes to the upstream never holds a              *)
(* Proxy-Authorization or a Proxy-Connection header, on the plain-forward  *)
(* path whatever the inbound headers were and on the CONNECT path.         *)
C17_NoProxyHeadersUpstream ==
    /\ \A k \in sent.keys :
          CanonicalMIMEHeaderKey(k) \notin {"Proxy-Authorization", "Proxy-Connection"}
    /\ req.method = "CONNECT" => sent \in {NoSent, ConnectRequest}
    /\ (req.method # "CONNECT" /\ sent # NoSent) =>
          sent.keys = {"Host", "User-Agent"}
                      \cup (Header(req) \ {"Proxy-Authorization", "Proxy-Connection"})

C17_Witness ==
    /\ req.method = "GET"
    /\ "Proxy-Authorization" \in Header(req)
    /\ "Proxy-Connection" \in Header(req)
    /\ "Accept" \in sent.keys
    /\ sent.line = "GET"

(* C18: no two live records share a target, in the store and in the cache, *)
(* whatever calls of AddProxy, UpdateProxy and RemoveProxy succeeded or    *)
(* failed (the username is the key of both, so it is unique in each).      *)
C18_UniqueTargets ==
    /\ \A u \in Usernames, v \in Usernames :
          (u # v /\ store[u].present /\ store[v].present)
              => store[u].target # store[v].target
    /\ Unlocked =>
          \A u \in Usernames, v \in Usernames :
              (u # v /\ cache[u].present /\ cache[v].present)
                  => cache[u].target # cache[v].target

(* C19: UpdateProxy and RemoveProxy of a username absent from the cache    *)
(* return not-found, write nothing to the store and leave the cache as it  *)
(* was; a successful UpdateProxy changes the password and the target of    *)
(* that record only (GetProxy then accepts the new password and no other), *)
(* a successful RemoveProxy deletes that record only.                      *)
OthersUnchanged(u) ==
    \A v \in Usernames \ {u} : cache'[v] = cache[v] /\ store'[v] = store[v]

C19_UpdateRemoveExact ==
    [][/\ \A u \in Usernames :
            (/\ ~cache[u].present
             /\ \/ \E p \in Passwords, t \in Targets : UpdateProxyCall(u, p, t)
                \/ RemoveProxyCall(u))
                => (ret' = "notfound" /\ Unlocked' /\ UNCHANGED <<store, cache>>)
       /\ (\E u \in Usernames, p \in Passwords, t \in Targets :
                UpdateProxyCall(u, p, t) /\ mu'.op = "update")
            => (/\ OthersUnchanged(mu'.username)
                /\ cache' = cache
                /\ store'[mu'.username] =
                      [store[mu'.username] EXCEPT !.password = mu'.password,
                                                  !.target = mu'.target])
       /\ UpdateProxyPassword => (OthersUnchanged(mu.username) /\ mu' # NoOp)
       /\ UpdateProxyTarget
            => (/\ OthersUnchanged(mu.username)
                /\ ret' = "ok"
                /\ cache'[mu.username] =
                      [present |-> TRUE, password |-> mu.password,
                       target |-> mu.target]
                /\ \A p \in Passwords :
                      GetProxy(cache', mu.username, p).found <=> p = mu.password)
       /\ (\E u \in Usernames : RemoveProxyCall(u) /\ mu'.op = "remove")
            => (/\ OthersUnchanged(mu'.username)
                /\ cache' = cache
                /\ ~store'[mu'.username].present)
       /\ RemoveProxyDelete
            => (/\ OthersUnchanged(mu.username)
                /\ ret' = "ok"
                /\ ~cache'[mu.username].present
                /\ \A p \in Passwords : ~GetProxy(cache', mu.username, p).found)
      ]_vars

C19_Witness ==
    /\ mu.op = "update"
    /\ cache[mu.username].password # mu.password
    /\ store[mu.username].password = mu.password
    /\ \E v \in Usernames \ {mu.username} : cache[v].present

C21_ListIsSnapshot ==
    /\ lpc = "rlocked" => (Unlocked /\ cache = loadCache(store))
    /\ lpc = "returned" =>
          /\ DOMAIN lister.result = GetAllProxies(lister.at)
          /\ \A u \in DOMAIN lister.result :
                ListDeref(lister.result[u], cache) =
                    [password |-> lister.at[u].password,
                     target |-> lister.at[u].target]

C21_Witness ==
    /\ lpc = "returned"
    /\ Unlocked
    /\ \E u \in DOMAIN lister.result :
          /\ cache[u].present
          /\ cache[u].password # lister.at[u].password
    /\ \E u \in DOMAIN lister.result : ~cache[u].present

(* C22: parseProxyAuth splits the decoded payload at its first colon: the  *)
(* header Basic base64(username:password), the username without a colon,   *)
(* the password empty or with colons of its own, gives that username and   *)
(* that password; no header, another scheme, text that is no base64 and a  *)
(* payload with no colon give failure, and the handler answers 407.        *)
MaxPasswordLen == 3
ColonFree == {<<>>, <<1>>, <<2>>}
PassTexts == UNION {[1..n -> AuthSymbols] : n \in 0..MaxPasswordLen}

C22_SplitAtFirstColon ==
    Serving =>
        LET a == parseProxyAuth(Get(req, "Proxy-Authorization")) IN
        /\ \A u \in ColonFree, p \in PassTexts :
              req.auth = BasicAuth(u \o <<Colon>> \o p)
                  => a = [ok |-> TRUE, username |-> u, password |-> p]
        /\ (req.authName = "" \/ req.auth \in MalformedAuth) => ~a.ok
        /\ (~a.ok /\ hpc # "auth") =>
              (hpc = "returned" /\ resp.status = StatusProxyAuthRequired)
        /\ (a.ok /\ hpc # "auth") => resp.body.text # "Proxy Authentication Required"

C22_Witness ==
    /\ req.auth = BasicAuth(<<1, Colon, 1, Colon, 2>>)
    /\ hpc = "returned"
    /\ resp.body.text = "Invalid credentials"

(* C23: a request with valid credentials that fails at the upstream ends   *)
(* with 503 when the dial failed, with 500 when the write of the request   *)
(* or the read of the reply failed, and on the CONNECT path with the       *)
(* status of the upstream's reply, the tunnel not established, when the    *)
(* reply is any other than success.                                        *)
C23_FailureStatus ==
    (hpc = "returned" /\ observed.found) =>
        /\ upstream.dial = "failed" => resp.status = StatusServiceUnavailable
        /\ (upstream.dial = "ok" /\ ~upstream.wrote)
              => resp.status = StatusInternalServerError
        /\ (upstream.wrote /\ upstream.status = 0)
              => resp.status = StatusInternalServerError
        /\ (req.method = "CONNECT" /\ upstream.status \notin {0, StatusOK})
              => (/\ resp.status = upstream.status
                  /\ ~established
                  /\ clientConn = "http")

(* C24: when the handler has returned, the upstream connection that it     *)
(* opened is closed, whichever path it returned on; a handler that has not *)
(* dialed yet holds no upstream connection.                                *)
C24_UpstreamClosedAtReturn ==
    /\ (hpc = "returned" /\ upstream.dial = "ok") => targetConn = "closed"
    /\ upstream.dial # "ok" => targetConn = "none"
    /\ (upstream.dial = "ok" /\ hpc # "returned") => targetConn = "open"

C24_Witness ==
    /\ hpc = "returned"
    /\ req.method = "CONNECT"
    /\ upstream.status = StatusOK
    /\ resp.body = HijackErrorBody
    /\ targetConn = "closed"

(* C25: the handler dials the target that the cache paired with the        *)
(* request's credentials when GetProxy read it, whatever UpdateProxy does  *)
(* between the lookup and the dial.                                        *)
C25_DialsLookedUpTarget ==
    upstream.dial # "none" => upstream.target = observed.config.target

(* C26: a probe is recorded as failed only when its upstream failed the    *)
(* TCP or the HTTP check: the probe of a healthy upstream reports success, *)
(* also when ctx is cancelled while the cycle is in flight.                *)
C26_HealthyProbeSucceeds ==
    [][\A u \in Usernames :
          TaskReport(u, TRUE) =>
              resultChan' = Append(resultChan, [Username |-> u, Success |-> TRUE])
      ]_vars

(* C27: cycles never overlap: a Check begins at the start of the loop or   *)
(* on a tick that it consumes, and only when no cycle is in progress; the  *)
(* cycle before it has returned with no goroutine, result or store call    *)
(* left over; within a cycle every record gets at most one result, hence   *)
(* at most one counter update.                                             *)
CycleIdle ==
    /\ \A u \in DOMAIN task : task[u] = "none" /\ received[u] = 0
    /\ InSnapshot = {}
    /\ resultChan = <<>>
    /\ semaphore = 0
    /\ ~chanClosed
    /\ collectPc = "recv"

C27_CyclesNeverOverlap ==
    /\ [](loopPc # "check" => CycleIdle)
    /\ [](\A u \in DOMAIN received : ResultsOf(u) + received[u] <= 1)
    /\ [][(InitialCheck \/ TickCheck) =>
            /\ loopPc # "check"
            /\ CycleIdle
            /\ loopPc = "start" \/ (tick /\ ~tick')
            /\ loopPc' = "check"]_vars
    /\ [][(loopPc = "start" /\ loopPc' # "start") => InitialCheck]_vars

C27_Witness ==
    /\ loopPc = "check"
    /\ \E u \in DOMAIN received : streak[u] = 2 /\ received[u] = 1
    /\ \E u \in DOMAIN task : task[u] = "probe"

(* C28: whatever calls and health-check cycles came before, RemoveProxy of *)
(* a username that the cache holds gets no error from the store, and so    *)
(* does UpdateProxy of it (here: to the values it has).                    *)
C28_PresentIsRemovable ==
    Unlocked =>
        \A u \in Usernames :
            cache[u].present =>
                /\ RemoveProxy(cache, store, u).ret = "none"
                /\ UpdateProxy(cache, store, u,
                               cache[u].password, cache[u].target).ret = "none"

(* C29: no failure counter is negative, and a row of the store has a       *)
(* counter at or beyond the threshold only while Check is between the      *)
(* increment of that row and its delete; so at the end of a cycle every    *)
(* row has a counter below the threshold.                                  *)
C29_CounterBelowThreshold ==
    \A u \in DOMAIN store :
        store[u].present =>
            /\ store[u].failed >= 0
            /\ store[u].failed >= MaxFailedChecks(conf) =>
                  /\ loopPc = "check"
                  /\ collectPc \in {"find", "delete"}
                  /\ cur.Username = u
                  /\ store[u].failed = MaxFailedChecks(conf)

C29_Witness ==
    /\ loopPc = "select"
    /\ \E u \in DOMAIN store : evicted[u] /\ ~store[u].present
    /\ \E v \in DOMAIN store :
          store[v].present /\ store[v].failed = MaxFailedChecks(conf) - 1

(* C30: no step of handleHTTP, handleConnect or handleHTTPRequest, on any  *)
(* path and with any outcome, writes the cache, the store or the lock of   *)
(* the router's mutations: the state that requests share stays as the      *)
(* router's own calls left it.                                             *)
C30_HandlerLeavesRoutingState ==
    [][(HandlerStep \/ \E r \in ServerRequests : RequestArrives(r))
          => UNCHANGED <<store, cache, mu, removed>>]_vars

C30_Witness ==
    /\ hpc = "returned"
    /\ resp.status = StatusServiceUnavailable
    /\ upstream.dial = "failed"
    /\ cache[1].present
    /\ cache[1].target # observed.config.target

====
